---- MODULE Spec2Model ----
(***************************************************************************)
(* libhomeseer: the ASCII listener (listener.py) composed with the         *)
(* HomeSeer object (homeseer.py) and its devices (devices.py).             *)
(*                                                                         *)
(* asyncio runs one coroutine at a time; a coroutine gives up control only *)
(* at an await that suspends.  Each action below is the code that runs     *)
(* from one suspension point to the next.  Timers (RECONNECT_TIMER,        *)
(* PING_TIMER) are untimed: a sleeping coroutine may wake at any moment.   *)
(* Observers registered with register_update_callback return normally.     *)
(***************************************************************************)
EXTENDS Integers, Sequences, FiniteSets, TLC

\* ---------------------------------------------------------------- bounds
MaxConn   == 2   \* streams asyncio.open_connection hands out in one run
MaxStarts == 2   \* calls of start() made from outside the listener
MaxObservers == 1 \* devices that carry a registered observer
PercentMargin == 2 \* dim() is called with percents from -PercentMargin to 100 + PercentMargin

\* ------------------------------------------------------- program constants
STATE_CONNECTED == "connected"
STATE_IDLE      == "idle"
STATE_STOPPED   == "stopped"

CONTROL_USE_ON     == 1
CONTROL_USE_OFF    == 2
CONTROL_USE_DIM    == 3
CONTROL_USE_LOCK   == 18
CONTROL_USE_UNLOCK == 19
CONTROL_LABEL_LOCK   == "Lock"
CONTROL_LABEL_UNLOCK == "Unlock"

SUPPORT_STATUS == 0
SUPPORT_ON     == 1
SUPPORT_OFF    == 2
SUPPORT_LOCK   == 4
SUPPORT_UNLOCK == 8
SUPPORT_DIM    == 16

Chains  == 1..MaxStarts
Streams == 1..MaxConn

\* ------------------------------------------------------------ wire text
\* A line is a sequence of one-character strings; BadByte stands for a byte
\* that is not valid UTF-8.
BadByte == "xFF"
CR == "\r"
LF == "\n"
Whitespace == {" ", CR, LF}
Digits == {"0", "1", "2", "3", "4", "5", "6", "7", "8", "9"}

DigitVal(ch) ==
    CASE ch = "0" -> 0 [] ch = "1" -> 1 [] ch = "2" -> 2 [] ch = "3" -> 3
      [] ch = "4" -> 4 [] ch = "5" -> 5 [] ch = "6" -> 6 [] ch = "7" -> 7
      [] ch = "8" -> 8 [] ch = "9" -> 9

\* bytes.decode(): raises UnicodeDecodeError on an invalid byte, and maps an
\* ASCII byte to the same character.
decode_raises(b) == \E i \in 1..Len(b) : b[i] = BadByte
decode(b) == b

RECURSIVE lstrip(_)
lstrip(s) == IF s # <<>> /\ Head(s) \in Whitespace THEN lstrip(Tail(s)) ELSE s

RECURSIVE rstrip(_)
rstrip(s) ==
    IF s # <<>> /\ s[Len(s)] \in Whitespace
    THEN rstrip(SubSeq(s, 1, Len(s) - 1)) ELSE s

\* str.strip()
strip(s) == rstrip(lstrip(s))

\* str.split(","): the fields between the commas, at least one field.
RECURSIVE split(_)
split(s) ==
    IF \E i \in 1..Len(s) : s[i] = ","
    THEN LET i == CHOOSE k \in 1..Len(s) :
                     s[k] = "," /\ \A j \in 1..(k - 1) : s[j] # ","
         IN  <<SubSeq(s, 1, i - 1)>> \o split(SubSeq(s, i + 1, Len(s)))
    ELSE <<s>>

RECURSIVE digits_value(_)
digits_value(s) ==
    IF s = <<>> THEN 0
    ELSE 10 * digits_value(SubSeq(s, 1, Len(s) - 1)) + DigitVal(s[Len(s)])

\* int(str): surrounding whitespace is ignored; anything but a non-empty run
\* of digits raises ValueError.
int_str_raises(s) ==
    LET t == strip(s) IN t = <<>> \/ \E i \in 1..Len(t) : t[i] \notin Digits
int_str(s) == digits_value(strip(s))

\* A JSON "ref": a number, or a string.
Num(n) == [t |-> "num", n |-> n, s |-> <<>>]
Str(s) == [t |-> "str", n |-> 0, s |-> s]
None == [t |-> "null", n |-> 0, s |-> <<>>]
int_raises(v) == v.t = "str" /\ int_str_raises(v.s)
int(v) == IF v.t = "num" THEN v.n ELSE int_str(v.s)

\* ------------------------------------------------------------ arithmetic
\* A Python float is an IEEE 754 double: a significand of at most Precision
\* bits (most significant first) times a power of two; its value is
\* BitsValue(m) * 2^e.  Long division and multiplication work on digits of
\* Limb bits.
Precision == 53
Limb == 16

\* The w low bits of n.
Pad(n, w) == [i \in 1..w |-> (n \div (2 ^ (w - i))) % 2]

RECURSIVE BitsValue(_)
BitsValue(b) ==
    IF b = <<>> THEN 0 ELSE 2 * BitsValue(SubSeq(b, 1, Len(b) - 1)) + b[Len(b)]

\* b without its leading zeros.
Strip(b) ==
    IF \A i \in 1..Len(b) : b[i] = 0 THEN <<>>
    ELSE LET f == CHOOSE i \in 1..Len(b) : b[i] = 1 /\ \A j \in 1..(i - 1) : b[j] = 0
         IN  SubSeq(b, f, Len(b))

\* b + 1; the carry may add a leading bit.
Increment(b) ==
    IF \A i \in 1..Len(b) : b[i] = 1 THEN <<1>> \o [i \in 1..Len(b) |-> 0]
    ELSE LET z == CHOOSE i \in 1..Len(b) : b[i] = 0 /\ \A j \in (i + 1)..Len(b) : b[j] = 1
         IN  [i \in 1..Len(b) |-> IF i < z THEN b[i] ELSE IF i = z THEN 1 ELSE 0]

\* Round an exact significand to Precision bits, ties to even.
Round(b, e) ==
    IF Len(b) <= Precision THEN [m |-> b, e |-> e]
    ELSE LET kept    == SubSeq(b, 1, Precision)
             dropped == SubSeq(b, Precision + 1, Len(b))
             half    == dropped[1] = 1
             sticky  == \E i \in 2..Len(dropped) : dropped[i] = 1
             up      == half /\ (sticky \/ kept[Precision] = 1)
             r       == IF up THEN Increment(kept) ELSE kept
             k       == Len(b) - Precision
         IN  IF Len(r) > Precision
             THEN [m |-> SubSeq(r, 1, Precision), e |-> e + k + 1]
             ELSE [m |-> r, e |-> e + k]

\* int / int for 0 <= a and 0 < d < 2^15 with a quotient of 2^-10 or more (or
\* zero): long division to four digits after the point and a sticky bit for
\* the remainder, rounded to the nearest float.
truediv(a, d) ==
    LET t1 == (a % d) * (2 ^ Limb)
        t2 == (t1 % d) * (2 ^ Limb)
        t3 == (t2 % d) * (2 ^ Limb)
        t4 == (t3 % d) * (2 ^ Limb)
        b  == Pad(a \div d, Limb) \o Pad(t1 \div d, Limb) \o Pad(t2 \div d, Limb)
                \o Pad(t3 \div d, Limb) \o Pad(t4 \div d, Limb)
                \o <<IF t4 % d # 0 THEN 1 ELSE 0>>
    IN  Round(Strip(b), 0 - (4 * Limb + 1))

\* (value of b) * n + carry for 0 <= n < 2^15, digit by digit.
RECURSIVE MulBits(_, _, _)
MulBits(b, n, carry) ==
    IF b = <<>> THEN Pad(carry, Limb)
    ELSE LET k  == IF Len(b) < Limb THEN Len(b) ELSE Limb
             lo == SubSeq(b, Len(b) - k + 1, Len(b))
             t  == BitsValue(lo) * n + carry
         IN  MulBits(SubSeq(b, 1, Len(b) - k), n, t \div (2 ^ k)) \o Pad(t % (2 ^ k), k)

\* int * float: the product rounded to the nearest float.
mul(n, x) == Round(Strip(MulBits(x.m, n, 0)), x.e)

\* int(float) for a float that is not negative: the fraction is cut off.
trunc(x) ==
    IF x.e >= 0 THEN BitsValue(x.m) * (2 ^ x.e)
    ELSE IF Len(x.m) + x.e <= 0 THEN 0
    ELSE BitsValue(SubSeq(x.m, 1, Len(x.m) + x.e))

OK_TOKEN == <<"o", "k">>
DC_TAG   == <<"D", "C">>

\* Reply lines the controller may send to the auth line.
AuthReplies ==
    { <<"o", "k", CR, LF>>,
      <<"O", "K", CR, LF>>,
      <<"o", "k", "k", CR, LF>>,
      <<>>,
      <<BadByte, CR, LF>> }

\* Lines the controller may push once authenticated.
InboundLines ==
    { <<"D", "C", ",", "1", ",", "1", ",", "0", CR, LF>>,
      <<"D", "C", ",", "2", ",", "1", ",", "0", CR, LF>>,
      <<"D", "C", ",", "3", ",", "1", ",", "0", CR, LF>>,
      <<"D", "C", ",", "x", ",", "1", CR, LF>>,
      <<"D", "C", CR, LF>>,
      <<"v", "r", ",", "1", CR, LF>>,
      <<BadByte, CR, LF>> }


\* ------------------------------------------------- the request collaborator
\* HomeSeer._request returns the decoded JSON, or None when the transport
\* fails, times out or the content is not JSON.  A getstatus answer is a
\* dict that normally holds "Devices".
BadRef == Str(<<"x">>)
Rec(r, v) == [ref |-> Num(r), value |-> v]
BadRec == [ref |-> BadRef, value |-> 0]

\* The "Devices" lists a getstatus answer may hold: none, one or two records,
\* for registered devices (1, 2), for a device the registry lacks (3), with a
\* ref repeated, and with a ref that is not a number.
DeviceLists ==
    { <<>>,
      <<Rec(1, 1)>>,
      <<Rec(1, 0)>>,
      <<Rec(2, 1)>>,
      <<Rec(1, 1), Rec(2, 1)>>,
      <<Rec(2, 1), Rec(1, 1)>>,
      <<Rec(3, 0), Rec(1, 1)>>,
      <<Rec(1, 0), Rec(1, 1)>>,
      <<BadRec, Rec(1, 1)>>,
      <<Rec(2, 1), BadRec>> }

RespNone  == [kind |-> "none", Devices |-> <<>>]
RespNoKey == [kind |-> "nokey", Devices |-> <<>>]
Responses ==
    { RespNone, RespNoKey } \cup { [kind |-> "devices", Devices |-> q] : q \in DeviceLists }

\* What discovery (getstatus, then getcontrol) can answer.
DiscoveryDevices == << Rec(1, 0), Rec(2, 0) >>
DiscoveryResponses == { RespNone, [kind |-> "devices", Devices |-> DiscoveryDevices] }

\* getcontrol: one entry per device, each a ref and its control pairs.
Pair(use, label, v) == [ControlUse |-> use, Label |-> label, ControlValue |-> Num(v)]
Entry(r, pairs) == [ref |-> Num(r), ControlPairs |-> pairs]

\* The getcontrol answer of the controller the listener is run against:
\* device 1 is a dimmer, device 2 a lock.
DiscoveryControl ==
    [kind |-> "devices",
     Devices |-> << Entry(1, << Pair(CONTROL_USE_ON, "On", 100),
                               Pair(CONTROL_USE_OFF, "Off", 0),
                               Pair(CONTROL_USE_DIM, "Dim", 50) >>),
                    Entry(2, << Pair(CONTROL_USE_LOCK, CONTROL_LABEL_LOCK, 255),
                               Pair(CONTROL_USE_UNLOCK, CONTROL_LABEL_UNLOCK, 0) >>) >>]

\* The control pairs a getcontrol entry is made of: the five uses with their
\* usual labels, lock and unlock given by label alone, a pair of no known use,
\* and a dim use that carries the lock label.  v is the "on" value.
OnValues == {1, 50, 99, 100, 255}
PairPool(v) ==
    << Pair(CONTROL_USE_ON, "On", v),
       Pair(CONTROL_USE_OFF, "Off", 0),
       Pair(CONTROL_USE_DIM, "Dim", v),
       Pair(CONTROL_USE_LOCK, CONTROL_LABEL_LOCK, 255),
       Pair(CONTROL_USE_UNLOCK, CONTROL_LABEL_UNLOCK, 0),
       Pair(0, CONTROL_LABEL_LOCK, 255),
       Pair(0, CONTROL_LABEL_UNLOCK, 0),
       Pair(0, "Other", 7),
       Pair(CONTROL_USE_DIM, CONTROL_LABEL_LOCK, v) >>

\* Every selection of pairs from the pool, in the order of the pool.
PairLists(v) ==
    { SelectSeq(PairPool(v), LAMBDA q : q \in S) : S \in SUBSET {PairPool(v)[i] : i \in 1..9} }

\* getcontrol answers for a controller with the single device 1: no answer, no
\* entry, one entry, an entry of another device before it, a second entry
\* with its ref after it.
ControlResponses ==
    { RespNone, [kind |-> "devices", Devices |-> <<>>] }
      \cup { [kind |-> "devices", Devices |-> << Entry(1, l) >>] :
                 l \in UNION { PairLists(v) : v \in OnValues } }
      \cup { [kind |-> "devices", Devices |-> << Entry(2, PairPool(v)), Entry(1, l) >>] :
                 v \in {100}, l \in PairLists(100) }
      \cup { [kind |-> "devices", Devices |-> << Entry(1, l), Entry(1, PairPool(v)) >>] :
                 v \in {100}, l \in PairLists(100) }
SingleDevice == [kind |-> "devices", Devices |-> << Rec(1, 0) >>]

VARIABLES
    state,       \* Listener._state
    writer,      \* Listener._reader / Listener._writer: the stream, 0 for None
    nconn,       \* streams opened so far
    closed,      \* streams whose writer.close() was called
    ping_flag,   \* Listener._ping_flag
    ping_task,   \* Listener._ping_task: "none", "live", "done"
    orphans,     \* live _ping tasks Listener._ping_task no longer refers to
    conn,        \* per chain: the stream its last asyncio.open_connection returned
    authed,      \* streams whose auth line was answered with "ok"
    pc,          \* per chain of start() calls: where its coroutine is suspended
    rd,          \* per chain: the stream whose readline() it awaits
    mref,        \* per chain: the device key _message_callback is refreshing
    available,   \* HomeSeer._available
    devices,     \* HomeSeer._devices: key -> device
    discovered,  \* initialize() has run
    ext,         \* what the outside has called: "new", "started", "stopped", "restarted"
    clean_stop,  \* the last outside call was a stop() that found the listener connected
                 \* with a read loop and the keepalive task running
    ev           \* what the last step did

vars == << state, writer, nconn, closed, ping_flag, ping_task, orphans, conn, authed,
           pc, rd, mref, available, devices, discovered, ext, clean_stop, ev >>

NoEv == [op |-> "none", chain |-> 0, line |-> <<>>, req |-> <<>>, resp |-> RespNone,
         calls |-> <<>>, dcalls |-> <<>>, ping |-> 0, opened |-> 0, cb |-> "none",
         control |-> RespNone, arg |-> 0, raised |-> FALSE]

Ev(op, c) == [NoEv EXCEPT !.op = op, !.chain = c]

\* ------------------------------------------------------------- devices.py
\* HomeSeerStatusDevice.ref
ref(dev) == int(dev.raw.ref)

\* HomeSeerStatusDevice.__init__; variant names the class of the object, and a
\* control value the class does not have reads None.
new_device(raw_data) ==
    [raw |-> raw_data, callback |-> FALSE, suppress |-> FALSE, variant |-> "Status",
     on_value |-> None, off_value |-> None, lock_value |-> None, unlock_value |-> None]

\* HomeSeerStatusDevice.value, for a value that is an integer.
value(dev) == dev.raw.value

\* HomeSeerSwitchableDevice.__init__
HomeSeerSwitchableDevice(raw_data, on_value, off_value) ==
    [new_device(raw_data) EXCEPT !.variant = "Switchable",
                                 !.on_value = on_value, !.off_value = off_value]

\* HomeSeerDimmableDevice: the constructor of HomeSeerSwitchableDevice.
HomeSeerDimmableDevice(raw_data, on_value, off_value) ==
    [HomeSeerSwitchableDevice(raw_data, on_value, off_value) EXCEPT !.variant = "Dimmable"]

\* HomeSeerLockableDevice.__init__
HomeSeerLockableDevice(raw_data, lock_value, unlock_value) ==
    [new_device(raw_data) EXCEPT !.variant = "Lockable",
                                 !.lock_value = lock_value, !.unlock_value = unlock_value]

\* a | b
RECURSIVE BitOr(_, _)
BitOr(a, b) ==
    IF a = 0 THEN b
    ELSE IF b = 0 THEN a
    ELSE 2 * BitOr(a \div 2, b \div 2) + (IF a % 2 = 1 \/ b % 2 = 1 THEN 1 ELSE 0)

\* The loop of get_device over the control pairs of one entry.
RECURSIVE scan_pairs(_, _)
scan_pairs(control_pairs, acc) ==
    IF control_pairs = <<>> THEN acc
    ELSE LET pair          == Head(control_pairs)
             control_use   == pair.ControlUse
             control_label == pair.Label
             f             == acc.supported_features
             next ==
                 IF control_use = CONTROL_USE_ON
                 THEN [acc EXCEPT !.on_value = pair.ControlValue,
                                  !.supported_features = BitOr(f, SUPPORT_ON)]
                 ELSE IF control_use = CONTROL_USE_OFF
                 THEN [acc EXCEPT !.off_value = pair.ControlValue,
                                  !.supported_features = BitOr(f, SUPPORT_OFF)]
                 ELSE IF control_use = CONTROL_USE_LOCK \/ control_label = CONTROL_LABEL_LOCK
                 THEN [acc EXCEPT !.lock_value = pair.ControlValue,
                                  !.supported_features = BitOr(f, SUPPORT_LOCK)]
                 ELSE IF control_use = CONTROL_USE_UNLOCK
                         \/ control_label = CONTROL_LABEL_UNLOCK
                 THEN [acc EXCEPT !.unlock_value = pair.ControlValue,
                                  !.supported_features = BitOr(f, SUPPORT_UNLOCK)]
                 ELSE IF control_use = CONTROL_USE_DIM
                 THEN [acc EXCEPT !.supported_features = BitOr(f, SUPPORT_DIM)]
                 ELSE acc
         IN  scan_pairs(Tail(control_pairs), next)

\* What get_device has accumulated when its loop over control_data ends: the
\* pairs of the first entry with the ref of the device are scanned.
scan_control(raw_data, control_data) ==
    LET start == [on_value |-> None, off_value |-> None, lock_value |-> None,
                  unlock_value |-> None, supported_features |-> SUPPORT_STATUS]
        hits  == {i \in 1..Len(control_data) : control_data[i].ref = raw_data.ref}
    IN  IF hits = {} THEN start
        ELSE scan_pairs(control_data[CHOOSE i \in hits : \A j \in hits : i <= j].ControlPairs,
                        start)

\* A variant test that asks whether the features are contained, not equal.
variant_of_containing(supported_features) ==
    IF supported_features % 4 = 3 /\ supported_features < SUPPORT_DIM THEN "Switchable"
    ELSE IF supported_features % 4 = 3 THEN "Dimmable"
    ELSE IF (supported_features \div 4) % 4 = 3 THEN "Lockable"
    ELSE "Status"

\* The class get_device picks for the accumulated features.
variant_of(supported_features) ==
    IF supported_features = BitOr(SUPPORT_ON, SUPPORT_OFF) THEN "Switchable"
    ELSE IF supported_features = BitOr(BitOr(SUPPORT_ON, SUPPORT_OFF), SUPPORT_DIM)
    THEN "Dimmable"
    ELSE IF supported_features = BitOr(SUPPORT_LOCK, SUPPORT_UNLOCK) THEN "Lockable"
    ELSE "Status"

\* get_device
get_device(raw_data, control_data) ==
    LET acc == scan_control(raw_data, control_data)
        v   == variant_of(acc.supported_features)
    IN  IF v = "Switchable"
        THEN HomeSeerSwitchableDevice(raw_data, acc.on_value, acc.off_value)
        ELSE IF v = "Dimmable"
        THEN HomeSeerDimmableDevice(raw_data, acc.on_value, acc.off_value)
        ELSE IF v = "Lockable"
        THEN HomeSeerLockableDevice(raw_data, acc.lock_value, acc.unlock_value)
        ELSE new_device(raw_data)

\* HomeSeerDimmableDevice.dim_percent, for an integer value.
dim_percent(dev) == truediv(value(dev), dev.on_value.n)

\* A test of the percent that lets through what is above 100.
dim_rejects_negative(percent) == percent < 0

\* HomeSeerDimmableDevice.dim raises ValueError for this percent.
dim_rejects(percent) == percent < 0 \/ percent > 100

\* The target value HomeSeerDimmableDevice.dim computes for a percent it accepts.
dim_value(dev, percent) == trunc(mul(dev.on_value.n, truediv(percent, 100)))

\* The controldevicebyvalue request a control method issues.
ControlByValue(r, v) == [request |-> "controldevicebyvalue", ref |-> r, value |-> v]

\* The percents dim() is called with.
Percents == (0 - PercentMargin)..(100 + PercentMargin)

\* update_data without the test of the suppression flag.
update_data_never_suppressed(dev, new_data, connection_flag) ==
    [ dev     |-> IF new_data # <<>> THEN [dev EXCEPT !.raw = new_data[1]] ELSE dev,
      invoked |-> dev.callback ]

\* HomeSeerStatusDevice.update_data; new_data is <<>> for None, else <<record>>.
update_data(dev, new_data, connection_flag) ==
    [ dev     |-> IF new_data # <<>> THEN [dev EXCEPT !.raw = new_data[1]] ELSE dev,
      invoked |-> ~(connection_flag /\ dev.suppress) /\ dev.callback ]

Call(k, new_data, connection_flag, u) ==
    [ref |-> k, data |-> new_data, flag |-> connection_flag, invoked |-> u.invoked]

\* ------------------------------------------------------------ homeseer.py
RECURSIVE KeysSeq(_)
KeysSeq(S) ==
    IF S = {} THEN <<>>
    ELSE LET k == CHOOSE x \in S : \A y \in S : x <= y
         IN  <<k>> \o KeysSeq(S \ {k})

\* The loop of HomeSeer._connect_callback over the fetched records.
RECURSIVE connect_loop(_, _, _)
connect_loop(devs, recs, log) ==
    IF recs = <<>> THEN [devices |-> devs, calls |-> log, raised |-> FALSE]
    ELSE LET r == Head(recs) IN
         IF int_raises(r.ref) THEN [devices |-> devs, calls |-> log, raised |-> TRUE]
         ELSE IF int(r.ref) \notin DOMAIN devs THEN connect_loop(devs, Tail(recs), log)
         ELSE LET k == int(r.ref)
                  u == update_data(devs[k], <<r>>, TRUE)
              IN  connect_loop([devs EXCEPT ![k] = u.dev], Tail(recs),
                               Append(log, Call(k, <<r>>, TRUE, u)))

\* _connect_callback that stops after the first fetched record.
connect_callback_first_record(devs, resp) ==
    IF resp.kind = "none" THEN [devices |-> devs, calls |-> <<>>, raised |-> FALSE]
    ELSE IF resp.kind = "nokey" THEN [devices |-> devs, calls |-> <<>>, raised |-> TRUE]
    ELSE connect_loop(devs, IF resp.Devices = <<>> THEN <<>> ELSE <<Head(resp.Devices)>>,
                      <<>>)

\* _connect_callback that makes a device for a first record whose ref the
\* registry lacks.
connect_callback_adding(devs, resp) ==
    IF resp.kind = "none" THEN [devices |-> devs, calls |-> <<>>, raised |-> FALSE]
    ELSE IF resp.kind = "nokey" THEN [devices |-> devs, calls |-> <<>>, raised |-> TRUE]
    ELSE IF resp.Devices # <<>> /\ ~int_raises(Head(resp.Devices).ref)
              /\ int(Head(resp.Devices).ref) \notin DOMAIN devs
    THEN LET k == int(Head(resp.Devices).ref)
         IN  connect_loop([x \in DOMAIN devs \cup {k} |->
                              IF x = k THEN new_device(Head(resp.Devices)) ELSE devs[x]],
                          resp.Devices, <<>>)
    ELSE connect_loop(devs, resp.Devices, <<>>)

\* HomeSeer._connect_callback after its request has answered.
connect_callback(devs, resp) ==
    IF resp.kind = "none" THEN [devices |-> devs, calls |-> <<>>, raised |-> FALSE]
    ELSE IF resp.kind = "nokey" THEN [devices |-> devs, calls |-> <<>>, raised |-> TRUE]
    ELSE connect_loop(devs, resp.Devices, <<>>)

\* The loop of HomeSeer._message_callback over the fetched records; every
\* exception is caught by its handler, which ends the loop.
RECURSIVE message_loop(_, _, _, _)
message_loop(devs, k, recs, log) ==
    IF recs = <<>> THEN [devices |-> devs, calls |-> log]
    ELSE LET r == Head(recs) IN
         IF int_raises(r.ref) THEN [devices |-> devs, calls |-> log]
         ELSE IF int(r.ref) # ref(devs[k]) THEN message_loop(devs, k, Tail(recs), log)
         ELSE LET u == update_data(devs[k], <<r>>, FALSE)
              IN  message_loop([devs EXCEPT ![k] = u.dev], k, Tail(recs),
                               Append(log, Call(k, <<r>>, FALSE, u)))

\* _message_callback that applies the first fetched record without comparing refs.
message_callback_any_ref(devs, k, resp) ==
    IF resp.kind = "devices" /\ resp.Devices # <<>>
    THEN LET u == update_data(devs[k], <<resp.Devices[1]>>, FALSE)
         IN  [devices |-> [devs EXCEPT ![k] = u.dev],
              calls |-> <<Call(k, <<resp.Devices[1]>>, FALSE, u)>>]
    ELSE [devices |-> devs, calls |-> <<>>]

\* _message_callback that applies the first fetched record with a numeric ref,
\* whatever that ref is.
message_callback_unmatched(devs, k, resp) ==
    IF resp.kind = "devices" /\ resp.Devices # <<>> /\ ~int_raises(resp.Devices[1].ref)
    THEN LET u == update_data(devs[k], <<resp.Devices[1]>>, FALSE)
         IN  [devices |-> [devs EXCEPT ![k] = u.dev],
              calls |-> <<Call(k, <<resp.Devices[1]>>, FALSE, u)>>]
    ELSE [devices |-> devs, calls |-> <<>>]

\* _message_callback that calls update_data() without data when its request
\* has failed.
message_callback_failing_notifies(devs, k, resp) ==
    IF resp.kind = "devices" THEN message_loop(devs, k, resp.Devices, <<>>)
    ELSE LET u == update_data(devs[k], <<>>, FALSE)
         IN  [devices |-> [devs EXCEPT ![k] = u.dev], calls |-> <<Call(k, <<>>, FALSE, u)>>]

\* HomeSeer._message_callback after its request has answered.
message_callback(devs, k, resp) ==
    IF resp.kind = "devices" THEN message_loop(devs, k, resp.Devices, <<>>)
    ELSE [devices |-> devs, calls |-> <<>>]

\* The loop of HomeSeer._disconnect_callback over devices.values().
RECURSIVE disconnect_loop(_, _, _)
disconnect_loop(devs, keys, log) ==
    IF keys = <<>> THEN [devices |-> devs, calls |-> log]
    ELSE LET k == Head(keys)
             u == update_data(devs[k], <<>>, TRUE)
         IN  disconnect_loop([devs EXCEPT ![k] = u.dev], Tail(keys),
                             Append(log, Call(k, <<>>, TRUE, u)))

\* _disconnect_callback that calls update_data() without connection_flag.
disconnect_callback_unflagged(devs) ==
    LET keys == KeysSeq(DOMAIN devs)
    IN  [devices |-> devs,
         calls |-> [i \in 1..Len(keys) |->
                       Call(keys[i], <<>>, FALSE, update_data(devs[keys[i]], <<>>, FALSE))]]

\* HomeSeer._disconnect_callback
disconnect_callback(devs) == disconnect_loop(devs, KeysSeq(DOMAIN devs), <<>>)

\* The devices HomeSeer._get_devices puts into the registry.
RECURSIVE get_devices(_, _, _)
get_devices(devs, recs, control_data) ==
    IF recs = <<>> THEN devs
    ELSE LET d == get_device(Head(recs), control_data)
             k == ref(d)
         IN  get_devices([x \in DOMAIN devs \cup {k} |-> IF x = k THEN d ELSE devs[x]],
                         Tail(recs), control_data)


\* ------------------------------------------------------------ listener.py
\* The comparison _open_connection makes on the auth reply.
auth_ok(msg) == strip(decode(msg)) = OK_TOKEN

\* task.cancel() on Listener._ping_task
cancel(task) == IF task = "live" THEN "done" ELSE task

\* writer.close() when Listener._writer is not None
close(w, cl) == IF w # 0 THEN cl \cup {w} ELSE cl

\* _connect_handler with its test of the state inverted.
connect_handler_inverted(st) == IF st = STATE_STOPPED THEN "sleep" ELSE "dead"

\* Listener._connect_handler: where its coroutine goes, given the state it reads.
connect_handler(st) == IF st # STATE_STOPPED THEN "sleep" ELSE "dead"

\* Listener._handle_message with HomeSeer._message_callback up to its request:
\* what the read loop does next with a decoded line.
handle_message(raw, devs) ==
    LET msg == split(raw) IN
    IF msg[1] # DC_TAG THEN [next |-> "read", key |-> 0]
    ELSE IF int_str_raises(msg[2]) THEN [next |-> "raise", key |-> 0]
    ELSE IF int_str(msg[2]) \notin DOMAIN devs THEN [next |-> "read", key |-> 0]
    ELSE [next |-> "request", key |-> int_str(msg[2])]

GetStatus(k) == [request |-> "getstatus", ref |-> k]

Init ==
    /\ state = STATE_IDLE
    /\ writer = 0
    /\ nconn = 0
    /\ closed = {}
    /\ ping_flag = FALSE
    /\ ping_task = "none"
    /\ orphans = 0
    /\ conn = [c \in Chains |-> 0]
    /\ authed = {}
    /\ pc = [c \in Chains |-> "none"]
    /\ rd = [c \in Chains |-> 0]
    /\ mref = [c \in Chains |-> 0]
    /\ available = FALSE
    /\ devices = << >>
    /\ discovered = FALSE
    /\ ext = "new"
    /\ clean_stop = FALSE
    /\ ev = NoEv

Outside == << ext, clean_stop >>
ListenerData == << state, writer, nconn, closed, ping_flag, ping_task, orphans, conn,
                   authed >>
HomeSeerData == << available, devices, discovered >>

\* HomeSeer.initialize: _get_devices fills the registry from the answers to
\* getstatus (resp) and getcontrol (control), unless one of the requests failed.
initialize(resp, control) ==
    /\ ~discovered
    /\ discovered' = TRUE
    /\ devices' = IF resp.kind = "devices" /\ control.kind = "devices"
                  THEN get_devices(devices, resp.Devices, control.Devices)
                  ELSE devices
    /\ ev' = [Ev("initialize", 0) EXCEPT !.resp = resp, !.control = control]
    /\ UNCHANGED << ListenerData, pc, rd, mref, available, Outside >>

\* HomeSeerStatusDevice.register_update_callback
register_update_callback(k, suppress_on_connection) ==
    /\ k \in DOMAIN devices
    /\ Cardinality({j \in DOMAIN devices : devices[j].callback} \cup {k}) <= MaxObservers
    /\ devices' = [devices EXCEPT ![k] = [@ EXCEPT !.callback = TRUE,
                                                   !.suppress = suppress_on_connection]]
    /\ ev' = Ev("register", 0)
    /\ UNCHANGED << ListenerData, pc, rd, mref, available, discovered, Outside >>

\* A control method that also stores a new value in the device it controls.
control_request_caching(k, e) ==
    /\ k \in DOMAIN devices
    /\ ev' = e
    /\ devices' = [devices EXCEPT ![k].raw.value = @ + 1]
    /\ UNCHANGED << ListenerData, pc, rd, mref, available, discovered, Outside >>

\* A control method of a device up to the await of its request.
control_request(k, e) ==
    /\ k \in DOMAIN devices
    /\ ev' = e
    /\ UNCHANGED << ListenerData, pc, rd, mref, HomeSeerData, Outside >>

\* HomeSeerSwitchableDevice.on
on(k) ==
    /\ k \in DOMAIN devices /\ devices[k].variant \in {"Switchable", "Dimmable"}
    /\ control_request(k, [Ev("on", 0) EXCEPT
                      !.req = <<ControlByValue(ref(devices[k]), devices[k].on_value)>>])

\* HomeSeerSwitchableDevice.off
off(k) ==
    /\ k \in DOMAIN devices /\ devices[k].variant \in {"Switchable", "Dimmable"}
    /\ control_request(k, [Ev("off", 0) EXCEPT
                      !.req = <<ControlByValue(ref(devices[k]), devices[k].off_value)>>])

\* HomeSeerDimmableDevice.dim
dim(k, percent) ==
    /\ k \in DOMAIN devices /\ devices[k].variant = "Dimmable"
    /\ control_request(k, IF dim_rejects(percent)
                  THEN [Ev("dim", 0) EXCEPT !.arg = percent, !.raised = TRUE]
                  ELSE [Ev("dim", 0) EXCEPT
                          !.arg = percent,
                          !.req = <<ControlByValue(ref(devices[k]),
                                                   Num(dim_value(devices[k], percent)))>>])

\* HomeSeerLockableDevice.lock
lock(k) ==
    /\ k \in DOMAIN devices /\ devices[k].variant = "Lockable"
    /\ control_request(k, [Ev("lock", 0) EXCEPT
                      !.req = <<ControlByValue(ref(devices[k]), devices[k].lock_value)>>])

\* HomeSeerLockableDevice.unlock
unlock(k) ==
    /\ k \in DOMAIN devices /\ devices[k].variant = "Lockable"
    /\ control_request(k, [Ev("unlock", 0) EXCEPT
                      !.req = <<ControlByValue(ref(devices[k]), devices[k].unlock_value)>>])

\* HomeSeer.control_device_by_value up to the await of its request.
control_device_by_value(r, v) ==
    /\ ev' = [Ev("control_device_by_value", 0) EXCEPT !.req = <<ControlByValue(r, Num(v))>>]
    /\ UNCHANGED << ListenerData, pc, rd, mref, HomeSeerData, Outside >>

\* Listener.start up to the await of asyncio.open_connection.
start_body(c, e) ==
    /\ state' = STATE_IDLE
    /\ pc' = [pc EXCEPT ![c] = "open"]
    /\ ev' = e
    /\ UNCHANGED << writer, nconn, closed, ping_flag, ping_task, orphans, conn, authed,
                    rd, mref, HomeSeerData >>

\* start() called from outside for the first time.
start(c) ==
    /\ ext = "new"
    /\ pc[c] = "none"
    /\ \A b \in Chains : b < c => pc[b] # "none"
    /\ ext' = "started"
    /\ clean_stop' = FALSE
    /\ start_body(c, Ev("start", c))

\* start() called from outside again, after stop().
restart(c) ==
    /\ ext = "stopped"
    /\ pc[c] = "none"
    /\ \A b \in Chains : b < c => pc[b] # "none"
    /\ ext' = "restarted"
    /\ clean_stop' = FALSE
    /\ start_body(c, Ev("start", c))

\* _connect_handler: asyncio.sleep(RECONNECT_TIMER) is over, start() is called.
reconnect(c) ==
    /\ pc[c] = "sleep"
    /\ UNCHANGED Outside
    /\ start_body(c, Ev("start", c))

\* The task start() made of _connect_handler runs for the first time.
connect_handler_task(c) ==
    /\ pc[c] = "handler"
    /\ pc' = [pc EXCEPT ![c] = connect_handler(state)]
    /\ ev' = Ev("connect_handler", c)
    /\ UNCHANGED << ListenerData, rd, mref, HomeSeerData, Outside >>

\* asyncio.open_connection raises OSError: _open_connection returns False and
\* start() makes a task of _connect_handler.
open_connection_fails(c) ==
    /\ pc[c] = "open"
    /\ pc' = [pc EXCEPT ![c] = "handler"]
    /\ ev' = Ev("open_failed", c)
    /\ UNCHANGED << ListenerData, rd, mref, HomeSeerData, Outside >>

\* asyncio.open_connection returns a stream: the auth line is written and
\* drained (drain_raises: the connection is already lost), then the reply is awaited.
open_connection(c, drain_raises) ==
    /\ pc[c] = "open"
    /\ nconn < MaxConn
    /\ nconn' = nconn + 1
    /\ writer' = nconn + 1
    /\ pc' = [pc EXCEPT ![c] = IF drain_raises THEN "dead" ELSE "auth"]
    /\ rd' = [rd EXCEPT ![c] = IF drain_raises THEN 0 ELSE nconn + 1]
    /\ conn' = [conn EXCEPT ![c] = nconn + 1]
    /\ ev' = [Ev("open_connection", c) EXCEPT !.opened = nconn + 1]
    /\ UNCHANGED << state, closed, ping_flag, ping_task, orphans, authed, mref,
                    HomeSeerData, Outside >>

\* readline() for the auth reply raises (the connection was reset).
auth_read_raises(c) ==
    /\ pc[c] = "auth"
    /\ pc' = [pc EXCEPT ![c] = "dead"]
    /\ rd' = [rd EXCEPT ![c] = 0]
    /\ ev' = Ev("auth_raised", c)
    /\ UNCHANGED << ListenerData, mref, HomeSeerData, Outside >>

\* The auth reply arrives.  On "ok": flag and state are set and
\* HomeSeer._connect_callback runs up to its request.
auth_reply(c, msg) ==
    /\ pc[c] = "auth"
    /\ rd' = [rd EXCEPT ![c] = 0]
    /\ IF decode_raises(msg)
       THEN /\ pc' = [pc EXCEPT ![c] = "dead"]
            /\ ev' = [Ev("auth_reply", c) EXCEPT !.line = msg]
            /\ UNCHANGED << state, ping_flag, available, authed >>
       ELSE IF auth_ok(msg)
       THEN /\ ping_flag' = TRUE
            /\ authed' = authed \cup {conn[c]}
            /\ state' = STATE_CONNECTED
            /\ available' = TRUE
            /\ pc' = [pc EXCEPT ![c] = "connect_cb"]
            /\ ev' = [Ev("auth_reply", c) EXCEPT !.line = msg, !.cb = "connect",
                                                 !.req = <<GetStatus(0)>>]
       ELSE /\ pc' = [pc EXCEPT ![c] = "handler"]
            /\ ev' = [Ev("auth_reply", c) EXCEPT !.line = msg]
            /\ UNCHANGED << state, ping_flag, available, authed >>
    /\ UNCHANGED << writer, nconn, closed, ping_task, orphans, conn, mref, devices,
                    discovered, Outside >>

\* The request of _connect_callback answers; when the callback returns, start()
\* makes the _listen task and the _ping task.
connect_refresh(c, resp) ==
    /\ pc[c] = "connect_cb"
    /\ LET r == connect_callback(devices, resp) IN
       /\ devices' = r.devices
       /\ ev' = [Ev("connect_refresh", c) EXCEPT !.resp = resp, !.calls = r.calls]
       /\ IF r.raised
          THEN /\ pc' = [pc EXCEPT ![c] = "dead"]
               /\ UNCHANGED << ping_task, orphans >>
          ELSE /\ pc' = [pc EXCEPT ![c] = "listen"]
               /\ ping_task' = "live"
               /\ orphans' = IF ping_task = "live" THEN orphans + 1 ELSE orphans
    /\ UNCHANGED << state, writer, nconn, closed, ping_flag, conn, authed, rd, mref,
                    available, discovered, Outside >>

\* Listener._disconnect_handler run by coroutine c (0: the caller of stop()),
\* with state' already set.
disconnect_handler(c, e) ==
    LET dc == disconnect_callback(devices) IN
    /\ ping_task' = cancel(ping_task)
    /\ closed' = close(writer, closed)
    /\ available' = FALSE
    /\ devices' = dc.devices
    /\ pc' = IF c = 0 THEN pc ELSE [pc EXCEPT ![c] = connect_handler(state')]
    /\ rd' = IF c = 0 THEN rd ELSE [rd EXCEPT ![c] = 0]
    /\ ev' = [e EXCEPT !.cb = "disconnect", !.dcalls = dc.calls]
    /\ UNCHANGED << writer, nconn, orphans, conn, authed, mref, discovered >>

\* Listener.stop
stop ==
    /\ state' = STATE_STOPPED
    /\ ext' = "stopped"
    /\ clean_stop' = ( /\ state = STATE_CONNECTED
                       /\ \E c \in Chains : pc[c] \in {"read", "message_cb"}
                       /\ ping_task = "live" )
    /\ UNCHANGED ping_flag
    /\ disconnect_handler(0, Ev("stop", 0))

\* _listen calls self._reader.readline(): a second waiter on one StreamReader
\* raises RuntimeError, which _listen handles like any other error.
read_next(c, e) ==
    IF \E b \in Chains : b # c /\ pc[b] \in {"auth", "read"} /\ rd[b] = writer
    THEN /\ UNCHANGED state
         /\ disconnect_handler(c, e)
    ELSE /\ pc' = [pc EXCEPT ![c] = "read"]
         /\ rd' = [rd EXCEPT ![c] = writer]
         /\ ev' = e
         /\ UNCHANGED << state, writer, nconn, closed, ping_task, orphans, conn, authed,
                         mref, HomeSeerData >>

\* The _listen task runs for the first time.
listen(c) ==
    /\ pc[c] = "listen"
    /\ UNCHANGED << ping_flag, Outside >>
    /\ read_next(c, Ev("listen", c))

\* readline() returns b"" or raises: the disconnect path.
listen_closed(c, how) ==
    /\ pc[c] = "read"
    /\ UNCHANGED << state, ping_flag, Outside >>
    /\ disconnect_handler(c, Ev(how, c))

\* readline() returns a line: _handle_message.
listen_line(c, msg) ==
    /\ pc[c] = "read"
    /\ UNCHANGED Outside
    /\ LET e == [Ev("line", c) EXCEPT !.line = msg] IN
       IF decode_raises(msg)
       THEN /\ UNCHANGED << state, ping_flag >>
            /\ disconnect_handler(c, e)
       ELSE LET h == handle_message(decode(msg), devices) IN
            /\ ping_flag' = TRUE
            /\ CASE h.next = "raise" ->
                      /\ UNCHANGED state
                      /\ disconnect_handler(c, e)
                 [] h.next = "read" -> read_next(c, e)
                 [] h.next = "request" ->
                      /\ pc' = [pc EXCEPT ![c] = "message_cb"]
                      /\ rd' = [rd EXCEPT ![c] = 0]
                      /\ mref' = [mref EXCEPT ![c] = h.key]
                      /\ ev' = [e EXCEPT !.req = <<GetStatus(ref(devices[h.key]))>>]
                      /\ UNCHANGED << state, writer, nconn, closed, ping_task, orphans,
                                      conn, authed, HomeSeerData >>

\* The request of _message_callback answers; _listen goes on to the next line.
message_refresh(c, resp) ==
    /\ pc[c] = "message_cb"
    /\ LET r == message_callback(devices, mref[c], resp)
           e == [Ev("message_refresh", c) EXCEPT !.resp = resp, !.calls = r.calls]
       IN  IF \E b \in Chains : b # c /\ pc[b] \in {"auth", "read"} /\ rd[b] = writer
           THEN LET dc == disconnect_callback(r.devices) IN
                /\ ping_task' = cancel(ping_task)
                /\ closed' = close(writer, closed)
                /\ available' = FALSE
                /\ devices' = dc.devices
                /\ pc' = [pc EXCEPT ![c] = connect_handler(state)]
                /\ rd' = rd
                /\ ev' = [e EXCEPT !.cb = "disconnect", !.dcalls = dc.calls]
           ELSE /\ devices' = r.devices
                /\ pc' = [pc EXCEPT ![c] = "read"]
                /\ rd' = [rd EXCEPT ![c] = writer]
                /\ ev' = e
                /\ UNCHANGED << closed, ping_task, available >>
    /\ mref' = [mref EXCEPT ![c] = 0]
    /\ UNCHANGED << state, writer, nconn, ping_flag, orphans, conn, authed, discovered,
                    Outside >>

\* One wake of a _ping task (held: the task Listener._ping_task refers to).
ping(held, drain_raises) ==
    /\ IF held THEN ping_task = "live" ELSE orphans > 0
    /\ IF ping_flag
       THEN /\ ~drain_raises
            /\ ping_flag' = FALSE
            /\ ev' = Ev("ping_reset", 0)
            /\ UNCHANGED << ping_task, orphans >>
       ELSE /\ ev' = [Ev("ping_write", 0) EXCEPT !.ping = writer]
            /\ ping_task' = IF held /\ drain_raises THEN "done" ELSE ping_task
            /\ orphans' = IF ~held /\ drain_raises THEN orphans - 1 ELSE orphans
            /\ UNCHANGED ping_flag
    /\ UNCHANGED << state, writer, nconn, closed, conn, authed, pc, rd, mref,
                    HomeSeerData, Outside >>

ListenerNext ==
    \/ \E c \in Chains : start(c)
    \/ stop
    \/ \E c \in Chains : reconnect(c)
    \/ \E c \in Chains : connect_handler_task(c)
    \/ \E c \in Chains : open_connection_fails(c)
    \/ \E c \in Chains, f \in BOOLEAN : open_connection(c, f)
    \/ \E c \in Chains : auth_read_raises(c)
    \/ \E c \in Chains, msg \in AuthReplies : auth_reply(c, msg)
    \/ \E c \in Chains, resp \in Responses : connect_refresh(c, resp)
    \/ \E c \in Chains : listen(c)
    \/ \E c \in Chains, how \in {"eof", "read_raised"} : listen_closed(c, how)
    \/ \E c \in Chains, msg \in InboundLines : listen_line(c, msg)
    \/ \E held \in BOOLEAN, f \in BOOLEAN : ping(held, f)

\* The program driven by an outside that discovers the devices, registers
\* observers, starts the listener once and may stop it.
Next ==
    \/ \E resp \in DiscoveryResponses : initialize(resp, DiscoveryControl)
    \/ \E k \in {1, 2}, sup \in BOOLEAN : register_update_callback(k, sup)
    \/ \E c \in Chains, resp \in Responses : message_refresh(c, resp)
    \/ ListenerNext

Spec == Init /\ [][Next]_vars

\* The listener of a HomeSeer object whose initialize() is never called (the
\* registry stays empty), which the outside may start again after stop().
NextRestart ==
    \/ \E c \in Chains : restart(c)
    \/ ListenerNext

SpecRestart == Init /\ [][NextRestart]_vars

\* Discovery against a controller with one device and any control pairs,
\* followed by calls of the control methods of the device it made.
NextDevices ==
    \/ \E c \in ControlResponses : initialize(SingleDevice, c)
    \/ \E k \in {1} : on(k)
    \/ \E k \in {1} : off(k)
    \/ \E k \in {1}, percent \in Percents : dim(k, percent)
    \/ \E k \in {1} : lock(k)
    \/ \E k \in {1} : unlock(k)
    \/ \E r \in {1, 3}, v \in {0, 1} : control_device_by_value(r, v)
    \/ \E k \in {1}, sup \in BOOLEAN : register_update_callback(k, sup)

SpecDevices == Init /\ [][NextDevices]_vars


\* ================================================================ claims
stop_called == ext \in {"stopped", "restarted"}

\* The content of a reply line is the token "ok", whitespace aside.
ContentIsOk(b) ==
    \E i \in 1..Len(b) :
        /\ i + 1 <= Len(b)
        /\ b[i] = "o"
        /\ b[i + 1] = "k"
        /\ \A j \in (1..Len(b)) \ {i, i + 1} : b[j] \in Whitespace

\* C1: an auth reply line whose content is not "ok" leaves the state as it was,
\* invokes no connect callback, spawns no read loop and no keepalive task and,
\* while the listener is not stopped, schedules a reconnect attempt.
C1_RejectedAuthSchedulesRetry ==
    [][\A c \in Chains :
          (pc[c] = "auth" /\ ev'.op = "auth_reply" /\ ev'.chain = c
             /\ ~ContentIsOk(ev'.line))
          => /\ state' = state
             /\ ev'.cb # "connect"
             /\ pc'[c] \notin {"connect_cb", "listen", "read"}
             /\ ping_task' = ping_task
             /\ orphans' = orphans
             /\ (state # STATE_STOPPED => pc'[c] = "handler")]_vars

\* C2: after a stop() that found the listener connected with a read loop and
\* the keepalive task running, and until the outside calls start() again, no
\* ping line is written and no connection attempt is started.
C2_StopSilencesListener ==
    [][(clean_stop /\ clean_stop')
          => ev'.op \notin {"ping_write", "start"}]_vars

\* C3: once stop() was called and until the outside calls start() again, the
\* state stays stopped, no stream is opened and no connect callback is invoked.
C3_StoppedIsTerminal ==
    [][(ext = "stopped" /\ ext' = "stopped")
          => /\ state' = STATE_STOPPED
             /\ ev'.opened = 0
             /\ ev'.cb # "connect"]_vars

\* C4: when the read loop of a connection gets an empty read and stop() was
\* never called, the disconnect callback fires in that step, for the first
\* time since the connect callback, the coroutine enters the reconnect delay
\* and no other coroutine is created; the delay ends in a call of start().
C4_PeerCloseReconnectsOnce ==
    [][\A c \in Chains :
          /\ (~stop_called /\ pc[c] = "read" /\ ev'.op = "eof" /\ ev'.chain = c)
             => /\ available
                /\ ev'.cb = "disconnect"
                /\ ~available'
                /\ pc'[c] = "sleep"
                /\ \A b \in Chains \ {c} : pc'[b] = pc[b]
          /\ (ext' = "started" /\ ev'.cb = "disconnect") => available
          /\ (pc[c] = "sleep" /\ pc'[c] # "sleep")
             => (pc'[c] = "open" /\ ev'.op = "start" /\ state' = STATE_IDLE)]_vars

C4_Witness ==
    /\ ~stop_called
    /\ ev.op = "eof"
    /\ ev.cb = "disconnect"
    /\ \E c \in Chains : pc[c] = "sleep" /\ ev.chain = c

\* C5: while a coroutine is in the reconnect delay, the state does not read
\* connected.
C5_IdleWhileRetryPending ==
    \A c \in Chains : pc[c] = "sleep" => state # STATE_CONNECTED

\* C6: while the listener was started and stop() was never called, the retry
\* loop is alive: some coroutine is connected or on its way to the next attempt.
C6_RetryLoopNeverEnds ==
    ext = "started" => \E c \in Chains : pc[c] \notin {"none", "dead"}


\* The records of a response a loop over result["Devices"] gets to before a
\* record whose ref is not a number ends it.
RECURSIVE Usable(_)
Usable(recs) ==
    IF recs = <<>> \/ int_raises(Head(recs).ref) THEN <<>>
    ELSE <<Head(recs)>> \o Usable(Tail(recs))

IsFor(k, r) == int(r.ref) = k
RecordsFor(resp, k) ==
    IF resp.kind = "devices"
    THEN SelectSeq(Usable(resp.Devices), LAMBDA r : IsFor(k, r))
    ELSE <<>>

IsDeviceChange(line) == ~decode_raises(line) /\ split(line)[1] = DC_TAG
KeyOf(line) ==
    LET f == split(line)[2]
    IN  IF ~int_str_raises(f) /\ int_str(f) \in DOMAIN devices THEN int_str(f) ELSE 0

\* C7: for an inbound DC line, a ref that is no registry key issues no request
\* and changes no device; a ref that is a key issues one getstatus request for
\* that ref, and when it answers, the device takes the last returned record
\* with its ref (or keeps its attributes when there is none), no other request
\* is issued and no other device changes.
C7_DeviceChangeRefresh ==
    [][\A c \in Chains :
          /\ (pc[c] = "read" /\ ev'.op = "line" /\ ev'.chain = c
                /\ IsDeviceChange(ev'.line))
             => /\ devices' = devices
                /\ IF KeyOf(ev'.line) = 0
                   THEN ev'.req = <<>> /\ pc'[c] # "message_cb"
                   ELSE /\ ev'.req = <<GetStatus(KeyOf(ev'.line))>>
                        /\ pc'[c] = "message_cb"
                        /\ mref'[c] = KeyOf(ev'.line)
          /\ (pc[c] = "message_cb" /\ ev'.op = "message_refresh" /\ ev'.chain = c)
             => LET k == mref[c]
                    recs == RecordsFor(ev'.resp, k)
                IN  /\ ev'.req = <<>>
                    /\ DOMAIN devices' = DOMAIN devices
                    /\ \A j \in DOMAIN devices \ {k} : devices'[j] = devices[j]
                    /\ devices'[k].raw = IF recs = <<>> THEN devices[k].raw
                                         ELSE recs[Len(recs)]]_vars

C7_Witness ==
    /\ ev.op = "message_refresh"
    /\ Len(ev.calls) = 1
    /\ devices[ev.calls[1].ref].raw.value = 1
    /\ devices[ev.calls[1].ref].raw = ev.calls[1].data[1]

\* C8 as claimed: on every connect-notification availability reads true and
\* every registry device receives an update_data call with connection_flag set.
C8_EveryDeviceRefreshed ==
    [][ev'.op = "connect_refresh"
          => /\ available'
             /\ \A k \in DOMAIN devices :
                   \E i \in 1..Len(ev'.calls) : ev'.calls[i].ref = k /\ ev'.calls[i].flag]_vars

\* C8 as amended: a connect-notification sets availability true before it
\* issues its getstatus request; when the request answers, the registry devices
\* that have a record in the answer receive update_data with that record and
\* connection_flag set, in the order of the records, and no other device
\* receives a call or changes.
C8_ListedDevicesRefreshed ==
    [][/\ ev'.cb = "connect" => (available' /\ ev'.req = <<GetStatus(0)>>)
       /\ ev'.op = "connect_refresh"
          => LET recs == IF ev'.resp.kind = "devices"
                         THEN SelectSeq(Usable(ev'.resp.Devices),
                                        LAMBDA r : int(r.ref) \in DOMAIN devices)
                         ELSE <<>>
             IN  /\ Len(ev'.calls) = Len(recs)
                 /\ \A i \in 1..Len(recs) :
                       /\ ev'.calls[i].ref = int(recs[i].ref)
                       /\ ev'.calls[i].data = <<recs[i]>>
                       /\ ev'.calls[i].flag
                 /\ DOMAIN devices' = DOMAIN devices
                 /\ \A k \in DOMAIN devices :
                       LET mine == RecordsFor(ev'.resp, k)
                       IN  devices'[k].raw = IF mine = <<>> THEN devices[k].raw
                                             ELSE mine[Len(mine)]]_vars

C8_Witness ==
    /\ ev.op = "connect_refresh"
    /\ Len(ev.calls) = 2
    /\ ev.calls[1].ref # ev.calls[2].ref
    /\ \A k \in DOMAIN devices : devices[k].raw.value = 1

\* C9: a disconnect-notification sets availability false and gives every
\* registry device exactly one update_data call without data and with
\* connection_flag set, and it changes no device.
C9_DisconnectUpdatesAll ==
    [][ev'.cb = "disconnect"
          => /\ ~available'
             /\ Len(ev'.dcalls) = Cardinality(DOMAIN devices)
             /\ \A k \in DOMAIN devices :
                   \E i \in 1..Len(ev'.dcalls) : ev'.dcalls[i].ref = k
             /\ \A i \in 1..Len(ev'.dcalls) :
                   ev'.dcalls[i].data = <<>> /\ ev'.dcalls[i].flag
             /\ (ev'.calls = <<>> => devices' = devices)]_vars

C9_Witness ==
    /\ ev.cb = "disconnect"
    /\ ~available
    /\ Len(ev.dcalls) = 2
    /\ \E k \in DOMAIN devices : devices[k].raw.value = 1

\* C10: an observer is invoked by an update_data call of a connect- or
\* disconnect-notification exactly when it was registered with
\* suppress_on_connection=False, and by every update_data call of a
\* change-notification however it was registered.
C10_ObserverSuppression ==
    [][/\ \A i \in 1..Len(ev'.dcalls) :
             LET d == devices[ev'.dcalls[i].ref]
             IN  ev'.dcalls[i].invoked <=> (d.callback /\ ~d.suppress)
       /\ \A i \in 1..Len(ev'.calls) :
             LET d == devices[ev'.calls[i].ref]
             IN  /\ ev'.op = "connect_refresh"
                    => (ev'.calls[i].invoked <=> (d.callback /\ ~d.suppress))
                 /\ ev'.op = "message_refresh"
                    => (ev'.calls[i].invoked <=> d.callback)]_vars

C10_Witness ==
    /\ ev.op = "message_refresh"
    /\ \E i \in 1..Len(ev.calls) :
          ev.calls[i].invoked /\ devices[ev.calls[i].ref].suppress


\* ------------------------------------------------------------ C11 - C13
\* The action a control pair stands for: its use code or, for lock and unlock,
\* its label.
PairAction(pair) ==
    IF pair.ControlUse = CONTROL_USE_ON THEN "on"
    ELSE IF pair.ControlUse = CONTROL_USE_OFF THEN "off"
    ELSE IF pair.ControlUse = CONTROL_USE_LOCK \/ pair.Label = CONTROL_LABEL_LOCK THEN "lock"
    ELSE IF pair.ControlUse = CONTROL_USE_UNLOCK \/ pair.Label = CONTROL_LABEL_UNLOCK
    THEN "unlock"
    ELSE IF pair.ControlUse = CONTROL_USE_DIM THEN "dim"
    ELSE "none"

\* The set of actions found for a device: those of the pairs of the first
\* getcontrol entry with its ref, none when there is no such entry.
Features(raw_data, control_data) ==
    LET hits == {i \in 1..Len(control_data) : control_data[i].ref = raw_data.ref}
    IN  IF hits = {} THEN {}
        ELSE LET pairs == control_data[CHOOSE i \in hits : \A j \in hits : i <= j].ControlPairs
             IN  {PairAction(pairs[i]) : i \in 1..Len(pairs)} \ {"none"}

VariantFor(features) ==
    IF features = {"on", "off"} THEN "Switchable"
    ELSE IF features = {"on", "off", "dim"} THEN "Dimmable"
    ELSE IF features = {"lock", "unlock"} THEN "Lockable"
    ELSE "Status"

Discovered == ev.op = "initialize" /\ ev.resp.kind = "devices" /\ ev.control.kind = "devices"

\* C11: the device discovery makes for a record is Switchable when the actions
\* found for it are exactly {on, off}, Dimmable when exactly {on, off, dim},
\* Lockable when exactly {lock, unlock}, and Status-only for every other set,
\* the empty one and the supersets included.
C11_VariantByExactFeatures ==
    Discovered =>
       \A i \in 1..Len(ev.resp.Devices) :
          LET raw_data == ev.resp.Devices[i]
          IN  devices[int(raw_data.ref)].variant
                 = VariantFor(Features(raw_data, ev.control.Devices))

C11_Witness ==
    /\ Discovered
    /\ {"on", "off", "lock", "unlock"} \subseteq Features(ev.resp.Devices[1], ev.control.Devices)
    /\ devices[1].variant = "Status"

\* C12: a call of dim with a percent below 0 or above 100 raises, issues no
\* request and changes nothing of the device, the registry or the listener.
C12_DimRejectsOutOfRange ==
    [][(ev'.op = "dim" /\ (ev'.arg < 0 \/ ev'.arg > 100))
          => /\ ev'.raised
             /\ ev'.req = <<>>
             /\ UNCHANGED << ListenerData, pc, rd, mref, HomeSeerData, Outside >>]_vars

C12_Witness ==
    /\ ev.op = "dim"
    /\ ev.arg = 101
    /\ ev.raised
    /\ ev.req = <<>>

\* The float 1.0
FloatOne == truediv(1, 1)

\* C13: a call of dim with a percent from 0 to 100 issues a request for the ref
\* of the device whose value is floor(on_value * percent / 100); for 100 that
\* is on_value, and dim_percent of a device holding it reads 1.
C13_DimTargetsFloor ==
    (ev.op = "dim" /\ ev.arg \in 0..100)
       => \E k \in DOMAIN devices :
             LET target == (devices[k].on_value.n * ev.arg) \div 100
             IN  /\ ~ev.raised
                 /\ ev.req = <<ControlByValue(ref(devices[k]), Num(target))>>
                 /\ ev.arg = 100
                    => /\ target = devices[k].on_value.n
                       /\ dim_percent([devices[k] EXCEPT !.raw.value = target]) = FloatOne


\* ------------------------------------------------------------ C14 - C16
\* What a device is made with: its class and its control values.
Capabilities(dev) ==
    << dev.variant, dev.on_value, dev.off_value, dev.lock_value, dev.unlock_value >>

\* C14: no step other than discovery adds a key to the registry or removes
\* one, and none changes the class or a control value of a device.
C14_RegistryFixedAtDiscovery ==
    [][ev'.op # "initialize"
          => /\ DOMAIN devices' = DOMAIN devices
             /\ \A k \in DOMAIN devices :
                   Capabilities(devices'[k]) = Capabilities(devices[k])]_vars

C14_Witness ==
    /\ ev.op = "connect_refresh"
    /\ Len(ev.calls) = 1
    /\ \E i \in 1..Len(ev.resp.Devices) :
          /\ ~int_raises(ev.resp.Devices[i].ref)
          /\ int(ev.resp.Devices[i].ref) \notin DOMAIN devices
    /\ devices[1].variant = "Dimmable"
    /\ devices[1].raw.value = 1
    /\ devices[2].variant = "Lockable"

\* The request collaborator returned None, or JSON without "Devices".
Unusable(resp) == resp.kind # "devices"

\* C15: when the request of a change- or connect-notification refresh yields
\* no usable response, no device changes, no observer is invoked and the
\* disconnect path is not run.
C15_FailedRefreshKeepsStale ==
    [][(ev'.op \in {"message_refresh", "connect_refresh"} /\ Unusable(ev'.resp))
          => /\ devices' = devices
             /\ ev'.calls = <<>>
             /\ ev'.dcalls = <<>>
             /\ ev'.cb # "disconnect"
             /\ available' = available
             /\ closed' = closed]_vars

C15_Witness ==
    /\ ev.op = "message_refresh"
    /\ Unusable(ev.resp)
    /\ \E k \in DOMAIN devices : devices[k].callback /\ devices[k].raw.value = 1
    /\ \E c \in Chains : pc[c] = "read"

\* C16: at most one of the streams opened so far is not closed.
C16_SingleConnection ==
    Cardinality((1..nconn) \ closed) <= 1

\* ------------------------------------------------------------ C17 - C20
\* C17: a wake of the keepalive loop writes a ping exactly when the flag is
\* not set, and otherwise clears the flag and writes nothing; a successful
\* authentication and every inbound line set the flag.
C17_PingOnlyWhenSilent ==
    [][/\ ev'.op \in {"ping_write", "ping_reset"}
          => /\ ev'.op = "ping_write" <=> ~ping_flag
             /\ ev'.op = "ping_reset" => (~ping_flag' /\ ev'.ping = 0)
       /\ ev'.cb = "connect" => ping_flag'
       /\ ev'.op = "line" => ping_flag']_vars

\* C18: whatever an inbound line holds, handling it does not run the
\* disconnect path, and the read loop goes on to the next line (after the
\* refresh the line has asked for, if any).
C18_LineContentNeverAnError ==
    [][\A c \in Chains :
          (ev'.op = "line" /\ ev'.chain = c)
          => /\ ev'.cb # "disconnect"
             /\ pc'[c] \in {"read", "message_cb"}]_vars

\* C19: a run of the disconnect path leaves the keepalive task cancelled, the
\* writer closed and the devices notified, and enters the reconnect delay
\* unless the listener is stopped; no ping is written to a closed writer.
C19_DisconnectOrder ==
    [][/\ ev'.cb = "disconnect"
          => /\ ping_task' # "live"
             /\ writer # 0 => writer \in closed'
             /\ ~available'
             /\ \A c \in Chains :
                   ev'.chain = c => pc'[c] = (IF state' = STATE_STOPPED THEN "dead"
                                              ELSE "sleep")
       /\ ev'.op = "ping_write" => ev'.ping \notin closed]_vars

\* C20: a successful authentication invokes the connect callback in that step,
\* with the state connected, and nothing else invokes it; when the callback
\* has returned and start() returns, the state is connected and the read loop
\* and the keepalive task have been made.
C20_StartSpawnsOnce ==
    [][\A c \in Chains :
          /\ (ev'.op = "auth_reply" /\ ev'.chain = c /\ ~decode_raises(ev'.line)
                 /\ auth_ok(ev'.line))
             => (ev'.cb = "connect" /\ state' = STATE_CONNECTED /\ pc'[c] = "connect_cb")
          /\ ev'.cb = "connect" => ev'.op = "auth_reply"
          /\ (ev'.op = "connect_refresh" /\ ev'.chain = c /\ pc'[c] = "listen")
             => /\ state' = STATE_CONNECTED
                /\ ping_task' = "live"]_vars


\* ------------------------------------------------------------ C21 - C27
\* C21: a ping is never written to a stream whose auth line was written and
\* whose reply has not been read yet, and only to a stream whose
\* authentication succeeded.
C21_WritesSerialized ==
    [][ev'.op = "ping_write"
          => /\ \A c \in Chains : ~(pc[c] = "auth" /\ conn[c] = ev'.ping)
             /\ ev'.ping \in authed]_vars

HasBit(f, b) == (f \div b) % 2 = 1

\* The features get_device accumulates for an entry that holds this one pair.
PairFeatures(pair) ==
    scan_control(Rec(1, 0), << Entry(1, <<pair>>) >>).supported_features

\* C22: every control pair of a discovered entry counts as lock exactly when
\* its use code is 18 or its label is "Lock", as unlock exactly when its use
\* code is 19 or its label is "Unlock", and as on, off and dim exactly when its
\* use code is 1, 2 and 3.
C22_PairActions ==
    Discovered =>
       \A i \in 1..Len(ev.control.Devices) :
          \A j \in 1..Len(ev.control.Devices[i].ControlPairs) :
             LET pair == ev.control.Devices[i].ControlPairs[j]
                 f    == PairFeatures(pair)
             IN  /\ HasBit(f, SUPPORT_LOCK)
                      <=> (pair.ControlUse = CONTROL_USE_LOCK \/ pair.Label = CONTROL_LABEL_LOCK)
                 /\ HasBit(f, SUPPORT_UNLOCK)
                      <=> (pair.ControlUse = CONTROL_USE_UNLOCK
                             \/ pair.Label = CONTROL_LABEL_UNLOCK)
                 /\ HasBit(f, SUPPORT_ON) <=> pair.ControlUse = CONTROL_USE_ON
                 /\ HasBit(f, SUPPORT_OFF) <=> pair.ControlUse = CONTROL_USE_OFF
                 /\ HasBit(f, SUPPORT_DIM) <=> pair.ControlUse = CONTROL_USE_DIM

\* C23: the disconnect callback is invoked only when a connect callback was
\* invoked since the previous disconnect callback, and the connect callback
\* only when none was invoked since the previous disconnect callback.
C23_NotificationsAlternate ==
    [][/\ ev'.cb = "disconnect" => available
       /\ ev'.cb = "connect" => ~available]_vars

\* C24: at most one read loop and at most one keepalive task exist, and the
\* handle the listener holds refers to the only live keepalive task.
C24_OneLoopOneKeepalive ==
    /\ Cardinality({c \in Chains : pc[c] \in {"listen", "read", "message_cb"}}) <= 1
    /\ orphans = 0

\* C25: a line is handled only when no message callback of an earlier line is
\* still running and when the connect callback of the connection it was read
\* from has returned.
C25_LinesOneAtATime ==
    [][\A c \in Chains :
          (ev'.op = "line" /\ ev'.chain = c)
          => /\ pc[c] = "read"
             /\ \A b \in Chains \ {c} :
                   /\ pc[b] # "message_cb"
                   /\ ~(pc[b] = "connect_cb" /\ conn[b] = rd[c])]_vars

\* C26: every registry key maps to a device with that ref, and a record is
\* applied to a device only when its ref is the ref of the device.
C26_KeysAreRefs ==
    [][/\ \A k \in DOMAIN devices' : ref(devices'[k]) = k
       /\ \A i \in 1..Len(ev'.calls) :
             int(ev'.calls[i].data[1].ref) = ref(devices[ev'.calls[i].ref])]_vars

C26_Witness ==
    /\ ev.op = "message_refresh"
    /\ Len(ev.resp.Devices) = 2
    /\ Len(ev.calls) = 1
    /\ \E i \in 1..2 : int(ev.resp.Devices[i].ref) # ev.calls[1].ref
    /\ \A k \in DOMAIN devices : ref(devices[k]) = k

ControlOps == {"on", "off", "dim", "lock", "unlock", "control_device_by_value"}

\* C27: a control operation that is not rejected issues exactly one
\* controldevicebyvalue request, changes no device, neither the registry nor
\* availability, and invokes no observer.
C27_ControlChangesNothing ==
    [][(ev'.op \in ControlOps /\ ~ev'.raised)
          => /\ Len(ev'.req) = 1
             /\ ev'.req[1].request = "controldevicebyvalue"
             /\ UNCHANGED HomeSeerData
             /\ ev'.calls = <<>>
             /\ ev'.dcalls = <<>>]_vars

C27_Witness ==
    /\ ev.op = "dim"
    /\ Len(ev.req) = 1
    /\ ev.req[1].value = Num(50)
    /\ devices[1].callback

====
